---------------------------- MODULE Spec2Model ----------------------------
(***************************************************************************)
(* Model of the chat relay in src/app.py: the in-memory conversation map,  *)
(* the /api/chat, /api/clear and /api/status handlers run by concurrent    *)
(* request threads, the remote provider's error mapping and the canned     *)
(* (demo mode) keyword matcher.                                            *)
(*                                                                         *)
(* Text is a sequence of Unicode code points, so that str.strip,           *)
(* str.lower and the substring tests of the matcher are computed, not      *)
(* assumed.  A dict is a function whose DOMAIN is its key set.             *)
(***************************************************************************)
EXTENDS Integers, Sequences, FiniteSets, TLC

\* ------------------------------------------------------------------ bounds
\* accepted (non-empty) chat calls explored per behaviour
MaxCalls ==
    2
\* fragments concatenated to build a probe text for the canned matcher
MaxFragments ==
    2

\* ----------------------------------------------------------- program text
\* src/app.py:151-152  "last 20 messages"
MAX_MESSAGES ==
    20

\* the request threads of the HTTP server, numbered; two are what the
\* concurrency contracts speak about
Threads ==
    {1, 2}

\* src/app.py:123  data.get("conversation_id", "default")
DEFAULT_ID ==
    "default"

\* src/app.py:31 and src/app.py:179
MODEL_NAME ==
    "gpt-3.5-turbo"

\* dict.get(key, default)
Get(d, k, default) ==
    IF k \in DOMAIN d THEN d[k] ELSE default

\* d[k] = v on a dict
Put(d, k, v) ==
    [x \in (DOMAIN d) \cup {k} |-> IF x = k THEN v ELSE d[x]]

\* -------------------------------------------------------------- str methods
\* str.isspace on one code point (ASCII and Latin-1 range)
IsSpace(c) ==
    c \in (9..13) \cup (28..32) \cup {133, 160}

RECURSIVE LStrip(_)
LStrip(s) ==
    IF s = <<>> THEN s
    ELSE IF IsSpace(Head(s)) THEN LStrip(Tail(s)) ELSE s

RECURSIVE RStrip(_)
RStrip(s) ==
    IF s = <<>> THEN s
    ELSE IF IsSpace(s[Len(s)]) THEN RStrip(SubSeq(s, 1, Len(s) - 1)) ELSE s

\* src/app.py:122  .strip()
Strip(s) ==
    RStrip(LStrip(s))

\* str.lower on one code point (ASCII and Latin-1 letters)
LowerChar(c) ==
    IF c \in 65..90 THEN c + 32
    ELSE IF c \in (192..222) \ {215} THEN c + 32
    ELSE c

\* src/app.py:67  user_message.lower()
Lower(s) ==
    [i \in 1..Len(s) |-> LowerChar(s[i])]

\* the Python test  sub in s  on strings
Contains(sub, s) ==
    \E i \in 1..(Len(s) - Len(sub) + 1) : SubSeq(s, i, i + Len(sub) - 1) = sub

\* any(w in s for w in tokens)
ContainsAny(tokens, s) ==
    \E w \in tokens : Contains(w, s)

\* ------------------------------------------------------ canned provider
\* src/app.py:69  ["hello", "hi", "hey"]
GREETINGS ==
    {<<104, 101, 108, 108, 111>>, <<104, 105>>, <<104, 101, 121>>}

\* src/app.py:72  "how are you"
HOW_ARE_YOU ==
    <<104, 111, 119, 32, 97, 114, 101, 32, 121, 111, 117>>

\* src/app.py:75  ["help", "can you", "what can"]
HELP_WORDS ==
    {<<104, 101, 108, 112>>, <<99, 97, 110, 32, 121, 111, 117>>,
     <<119, 104, 97, 116, 32, 99, 97, 110>>}

\* src/app.py:86  ["code", "programming", "python"]
CODE_WORDS ==
    {<<99, 111, 100, 101>>,
     <<112, 114, 111, 103, 114, 97, 109, 109, 105, 110, 103>>,
     <<112, 121, 116, 104, 111, 110>>}

\* src/app.py:97  "weather"
WEATHER ==
    <<119, 101, 97, 116, 104, 101, 114>>

\* src/app.py:100  ["thank", "thanks"]
THANK_WORDS ==
    {<<116, 104, 97, 110, 107>>, <<116, 104, 97, 110, 107, 115>>}

\* src/app.py:103  "?"
QUESTION_MARK ==
    <<63>>

\* src/app.py:70  "Hello! \U0001f44b I'm your AI assistant. I'm running in d..."
GreetingReply ==
    <<72, 101, 108, 108, 111, 33, 32, 128075, 32, 73, 39, 109, 32, 121, 111,
    117, 114, 32, 65, 73, 32, 97, 115, 115, 105, 115, 116, 97, 110, 116, 46,
    32, 73, 39, 109, 32, 114, 117, 110, 110, 105, 110, 103, 32, 105, 110, 32,
    100, 101, 109, 111, 32, 109, 111, 100, 101, 32, 114, 105, 103, 104, 116,
    32, 110, 111, 119, 44, 32, 98, 117, 116, 32, 73, 32, 99, 97, 110, 32,
    115, 116, 105, 108, 108, 32, 115, 104, 111, 119, 32, 121, 111, 117, 32,
    104, 111, 119, 32, 116, 104, 101, 32, 105, 110, 116, 101, 114, 102, 97,
    99, 101, 32, 119, 111, 114, 107, 115, 46, 32, 87, 104, 97, 116, 32, 119,
    111, 117, 108, 100, 32, 121, 111, 117, 32, 108, 105, 107, 101, 32, 116,
    111, 32, 99, 104, 97, 116, 32, 97, 98, 111, 117, 116, 63>>

\* src/app.py:73  "I'm doing great, thanks for asking! As an AI, I ..."
HowAreYouReply ==
    <<73, 39, 109, 32, 100, 111, 105, 110, 103, 32, 103, 114, 101, 97, 116,
    44, 32, 116, 104, 97, 110, 107, 115, 32, 102, 111, 114, 32, 97, 115, 107,
    105, 110, 103, 33, 32, 65, 115, 32, 97, 110, 32, 65, 73, 44, 32, 73, 32,
    100, 111, 110, 39, 116, 32, 104, 97, 118, 101, 32, 102, 101, 101, 108,
    105, 110, 103, 115, 32, 105, 110, 32, 116, 104, 101, 32, 104, 117, 109,
    97, 110, 32, 115, 101, 110, 115, 101, 44, 32, 98, 117, 116, 32, 73, 39,
    109, 32, 102, 117, 110, 99, 116, 105, 111, 110, 105, 110, 103, 32, 119,
    101, 108, 108, 32, 97, 110, 100, 32, 114, 101, 97, 100, 121, 32, 116,
    111, 32, 104, 101, 108, 112, 32, 121, 111, 117, 46, 32, 87, 104, 97, 116,
    39, 115, 32, 111, 110, 32, 121, 111, 117, 114, 32, 109, 105, 110, 100,
    63>>

\* src/app.py:76  'I can help with lots of things! In full mode (wi...'
HelpReply ==
    <<73, 32, 99, 97, 110, 32, 104, 101, 108, 112, 32, 119, 105, 116, 104,
    32, 108, 111, 116, 115, 32, 111, 102, 32, 116, 104, 105, 110, 103, 115,
    33, 32, 73, 110, 32, 102, 117, 108, 108, 32, 109, 111, 100, 101, 32, 40,
    119, 105, 116, 104, 32, 97, 110, 32, 65, 80, 73, 32, 107, 101, 121, 41,
    44, 32, 73, 32, 99, 97, 110, 58, 10, 10, 8226, 32, 65, 110, 115, 119,
    101, 114, 32, 113, 117, 101, 115, 116, 105, 111, 110, 115, 32, 111, 110,
    32, 97, 108, 109, 111, 115, 116, 32, 97, 110, 121, 32, 116, 111, 112,
    105, 99, 10, 8226, 32, 72, 101, 108, 112, 32, 119, 105, 116, 104, 32,
    119, 114, 105, 116, 105, 110, 103, 32, 97, 110, 100, 32, 101, 100, 105,
    116, 105, 110, 103, 10, 8226, 32, 69, 120, 112, 108, 97, 105, 110, 32,
    99, 111, 109, 112, 108, 101, 120, 32, 99, 111, 110, 99, 101, 112, 116,
    115, 10, 8226, 32, 72, 97, 118, 101, 32, 99, 111, 110, 118, 101, 114,
    115, 97, 116, 105, 111, 110, 115, 32, 97, 98, 111, 117, 116, 32, 105,
    100, 101, 97, 115, 10, 8226, 32, 65, 115, 115, 105, 115, 116, 32, 119,
    105, 116, 104, 32, 112, 114, 111, 98, 108, 101, 109, 45, 115, 111, 108,
    118, 105, 110, 103, 10, 10, 82, 105, 103, 104, 116, 32, 110, 111, 119,
    32, 73, 39, 109, 32, 105, 110, 32, 100, 101, 109, 111, 32, 109, 111, 100,
    101, 44, 32, 115, 111, 32, 109, 121, 32, 114, 101, 115, 112, 111, 110,
    115, 101, 115, 32, 97, 114, 101, 32, 112, 114, 101, 45, 119, 114, 105,
    116, 116, 101, 110, 46, 32, 65, 100, 100, 32, 97, 110, 32, 79, 112, 101,
    110, 65, 73, 32, 65, 80, 73, 32, 107, 101, 121, 32, 116, 111, 32, 117,
    110, 108, 111, 99, 107, 32, 116, 104, 101, 32, 102, 117, 108, 108, 32,
    101, 120, 112, 101, 114, 105, 101, 110, 99, 101, 33>>

\* src/app.py:87  'I love talking about code! In full mode, I can:\n...'
CodeReply ==
    <<73, 32, 108, 111, 118, 101, 32, 116, 97, 108, 107, 105, 110, 103, 32,
    97, 98, 111, 117, 116, 32, 99, 111, 100, 101, 33, 32, 73, 110, 32, 102,
    117, 108, 108, 32, 109, 111, 100, 101, 44, 32, 73, 32, 99, 97, 110, 58,
    10, 10, 8226, 32, 69, 120, 112, 108, 97, 105, 110, 32, 112, 114, 111,
    103, 114, 97, 109, 109, 105, 110, 103, 32, 99, 111, 110, 99, 101, 112,
    116, 115, 10, 8226, 32, 72, 101, 108, 112, 32, 100, 101, 98, 117, 103,
    32, 99, 111, 100, 101, 10, 8226, 32, 83, 117, 103, 103, 101, 115, 116,
    32, 105, 109, 112, 114, 111, 118, 101, 109, 101, 110, 116, 115, 10, 8226,
    32, 87, 114, 105, 116, 101, 32, 99, 111, 100, 101, 32, 115, 110, 105,
    112, 112, 101, 116, 115, 10, 8226, 32, 68, 105, 115, 99, 117, 115, 115,
    32, 98, 101, 115, 116, 32, 112, 114, 97, 99, 116, 105, 99, 101, 115, 10,
    10, 84, 104, 105, 115, 32, 105, 115, 32, 100, 101, 109, 111, 32, 109,
    111, 100, 101, 44, 32, 98, 117, 116, 32, 119, 105, 116, 104, 32, 97, 110,
    32, 65, 80, 73, 32, 107, 101, 121, 32, 73, 32, 99, 97, 110, 32, 97, 99,
    116, 117, 97, 108, 108, 121, 32, 104, 101, 108, 112, 32, 121, 111, 117,
    32, 119, 114, 105, 116, 101, 32, 97, 110, 100, 32, 117, 110, 100, 101,
    114, 115, 116, 97, 110, 100, 32, 99, 111, 100, 101, 33>>

\* src/app.py:98  "I'm an AI assistant, not a weather service! But ..."
WeatherReply ==
    <<73, 39, 109, 32, 97, 110, 32, 65, 73, 32, 97, 115, 115, 105, 115, 116,
    97, 110, 116, 44, 32, 110, 111, 116, 32, 97, 32, 119, 101, 97, 116, 104,
    101, 114, 32, 115, 101, 114, 118, 105, 99, 101, 33, 32, 66, 117, 116, 32,
    73, 39, 100, 32, 98, 101, 32, 104, 97, 112, 112, 121, 32, 116, 111, 32,
    99, 104, 97, 116, 32, 97, 98, 111, 117, 116, 32, 99, 108, 105, 109, 97,
    116, 101, 44, 32, 109, 101, 116, 101, 111, 114, 111, 108, 111, 103, 121,
    44, 32, 111, 114, 32, 114, 101, 99, 111, 109, 109, 101, 110, 100, 32,
    119, 97, 121, 115, 32, 116, 111, 32, 99, 104, 101, 99, 107, 32, 116, 104,
    101, 32, 119, 101, 97, 116, 104, 101, 114, 46, 32, 87, 104, 97, 116, 32,
    105, 110, 116, 101, 114, 101, 115, 116, 115, 32, 121, 111, 117, 63>>

\* src/app.py:101  "You're welcome! Happy to help. Is there anything..."
ThanksReply ==
    <<89, 111, 117, 39, 114, 101, 32, 119, 101, 108, 99, 111, 109, 101, 33,
    32, 72, 97, 112, 112, 121, 32, 116, 111, 32, 104, 101, 108, 112, 46, 32,
    73, 115, 32, 116, 104, 101, 114, 101, 32, 97, 110, 121, 116, 104, 105,
    110, 103, 32, 101, 108, 115, 101, 32, 121, 111, 117, 39, 100, 32, 108,
    105, 107, 101, 32, 116, 111, 32, 107, 110, 111, 119, 63>>

\* src/app.py:104  "That's a great question! In full mode, I'd give ..."
QuestionReply ==
    <<84, 104, 97, 116, 39, 115, 32, 97, 32, 103, 114, 101, 97, 116, 32, 113,
    117, 101, 115, 116, 105, 111, 110, 33, 32, 73, 110, 32, 102, 117, 108,
    108, 32, 109, 111, 100, 101, 44, 32, 73, 39, 100, 32, 103, 105, 118, 101,
    32, 121, 111, 117, 32, 97, 32, 100, 101, 116, 97, 105, 108, 101, 100, 32,
    97, 110, 115, 119, 101, 114, 32, 97, 98, 111, 117, 116, 32, 116, 104, 97,
    116, 46, 32, 82, 105, 103, 104, 116, 32, 110, 111, 119, 32, 73, 39, 109,
    32, 114, 117, 110, 110, 105, 110, 103, 32, 105, 110, 32, 100, 101, 109,
    111, 32, 109, 111, 100, 101, 32, 119, 105, 116, 104, 111, 117, 116, 32,
    97, 110, 32, 79, 112, 101, 110, 65, 73, 32, 65, 80, 73, 32, 107, 101,
    121, 44, 32, 115, 111, 32, 109, 121, 32, 114, 101, 115, 112, 111, 110,
    115, 101, 115, 32, 97, 114, 101, 32, 108, 105, 109, 105, 116, 101, 100,
    46, 32, 65, 100, 100, 32, 79, 80, 69, 78, 65, 73, 95, 65, 80, 73, 95, 75,
    69, 89, 32, 116, 111, 32, 121, 111, 117, 114, 32, 46, 101, 110, 118, 32,
    102, 105, 108, 101, 32, 102, 111, 114, 32, 116, 104, 101, 32, 102, 117,
    108, 108, 32, 65, 73, 32, 101, 120, 112, 101, 114, 105, 101, 110, 99,
    101, 33>>

\* src/app.py:106  'I understand you\'re saying: "'
EchoPrefix ==
    <<73, 32, 117, 110, 100, 101, 114, 115, 116, 97, 110, 100, 32, 121, 111,
    117, 39, 114, 101, 32, 115, 97, 121, 105, 110, 103, 58, 32, 34>>

\* src/app.py:106  '"\n\nThis is a demo response. With an OpenAI API k...'
EchoSuffix ==
    <<34, 10, 10, 84, 104, 105, 115, 32, 105, 115, 32, 97, 32, 100, 101, 109,
    111, 32, 114, 101, 115, 112, 111, 110, 115, 101, 46, 32, 87, 105, 116,
    104, 32, 97, 110, 32, 79, 112, 101, 110, 65, 73, 32, 65, 80, 73, 32, 107,
    101, 121, 44, 32, 73, 39, 100, 32, 112, 114, 111, 118, 105, 100, 101, 32,
    97, 32, 116, 104, 111, 117, 103, 104, 116, 102, 117, 108, 44, 32, 99,
    111, 110, 116, 101, 120, 116, 117, 97, 108, 32, 114, 101, 112, 108, 121,
    46, 32, 84, 104, 101, 32, 105, 110, 116, 101, 114, 102, 97, 99, 101, 32,
    121, 111, 117, 39, 114, 101, 32, 115, 101, 101, 105, 110, 103, 32, 119,
    111, 114, 107, 115, 32, 101, 120, 97, 99, 116, 108, 121, 32, 116, 104,
    101, 32, 115, 97, 109, 101, 32, 119, 97, 121, 32, 45, 32, 106, 117, 115,
    116, 32, 97, 100, 100, 32, 121, 111, 117, 114, 32, 65, 80, 73, 32, 107,
    101, 121, 32, 116, 111, 32, 117, 110, 108, 111, 99, 107, 32, 102, 117,
    108, 108, 32, 65, 73, 32, 99, 97, 112, 97, 98, 105, 108, 105, 116, 105,
    101, 115, 33>>

\* EchoReply embedding the lower-cased text (user_lower of line 67)
EchoReply_Lower(user_message) ==
    EchoPrefix \o Lower(user_message) \o EchoSuffix

\* src/app.py:106  the f-string around {user_message}
EchoReply(user_message) ==
    EchoPrefix \o user_message \o EchoSuffix

\* _demo_response with the question-mark test moved ahead of the keyword
\* tests for "weather" and the gratitude words
DemoResponse_QuestionFirst(user_message) ==
    LET user_lower == Lower(user_message) IN
    IF ContainsAny(GREETINGS, user_lower) THEN GreetingReply
    ELSE IF Contains(HOW_ARE_YOU, user_lower) THEN HowAreYouReply
    ELSE IF ContainsAny(HELP_WORDS, user_lower) THEN HelpReply
    ELSE IF ContainsAny(CODE_WORDS, user_lower) THEN CodeReply
    ELSE IF Contains(QUESTION_MARK, user_message) THEN QuestionReply
    ELSE IF Contains(WEATHER, user_lower) THEN WeatherReply
    ELSE IF ContainsAny(THANK_WORDS, user_lower) THEN ThanksReply
    ELSE EchoReply(user_message)

\* src/app.py:65-106  ChatBot._demo_response
DemoResponse(user_message) ==
    LET user_lower == Lower(user_message) IN
    IF ContainsAny(GREETINGS, user_lower) THEN GreetingReply
    ELSE IF Contains(HOW_ARE_YOU, user_lower) THEN HowAreYouReply
    ELSE IF ContainsAny(HELP_WORDS, user_lower) THEN HelpReply
    ELSE IF ContainsAny(CODE_WORDS, user_lower) THEN CodeReply
    ELSE IF Contains(WEATHER, user_lower) THEN WeatherReply
    ELSE IF ContainsAny(THANK_WORDS, user_lower) THEN ThanksReply
    ELSE IF Contains(QUESTION_MARK, user_message) THEN QuestionReply
    ELSE EchoReply(user_message)

\* ------------------------------------------------------ remote provider
\* src/app.py:60, 63  the "Error: " prefix of both f-strings
ERROR_PREFIX ==
    <<69, 114, 114, 111, 114, 58, 32>>

\* src/app.py:60  .get('message', 'Unknown error')
UNKNOWN_ERROR ==
    <<85, 110, 107, 110, 111, 119, 110, 32, 101, 114, 114, 111, 114>>

\* str(KeyError('choices')), raised by data["choices"] at src/app.py:61
KEY_ERROR_CHOICES ==
    <<39, 99, 104, 111, 105, 99, 101, 115, 39>>

\* str(IndexError) of data["choices"][0] on an empty list, src/app.py:61
INDEX_ERROR ==
    <<108, 105, 115, 116, 32, 105, 110, 100, 101, 120, 32, 111, 117, 116, 32, 111, 102, 32, 114, 97, 110, 103, 101>>

\* what a function call hands back: a value, or an exception that propagates
Returned(v) ==
    [raised |-> FALSE, value |-> v]

Raised(v) ==
    [raised |-> TRUE, value |-> v]

\* a successful completion: the JSON body {"choices":[{"message":{...}}]}
\* The outcomes of the outbound call of src/app.py:43-58: the parsed JSON
\* body (resp.json()), or an exception raised by session.post / resp.json
\* (network error, timeout, body that is not JSON) with its str(e).
OK_OUTCOME ==
    [kind |-> "json",
     data |-> [choices |-> << [message |-> [content |-> <<83, 117, 114, 101, 46>>]] >>]]

Outcomes ==
    { OK_OUTCOME,
      [kind |-> "json",
       data |-> [error |-> [message |-> <<82, 97, 116, 101, 32, 108, 105, 109, 105, 116>>]]],
      [kind |-> "json", data |-> [error |-> << >>]],
      [kind |-> "json", data |-> << >>],
      [kind |-> "json", data |-> [choices |-> << >>]],
      [kind |-> "raise", text |-> <<67, 97, 110, 110, 111, 116, 32, 99, 111, 110, 110, 101, 99, 116>>],
      [kind |-> "raise", text |-> << >>] }

\* RemoteChat with the except clause of line 62 missing: an exception of
\* the outbound call, a missing key or an empty list propagates
RemoteChat_Uncaught(o) ==
    IF o.kind = "raise" THEN Raised(o.text)
    ELSE IF "error" \in DOMAIN o.data
         THEN Returned(ERROR_PREFIX \o Get(o.data.error, "message", UNKNOWN_ERROR))
    ELSE IF "choices" \notin DOMAIN o.data
         THEN Raised(KEY_ERROR_CHOICES)
    ELSE IF o.data.choices = << >>
         THEN Raised(INDEX_ERROR)
    ELSE Returned(o.data.choices[1].message.content)

\* src/app.py:41-63  the remote branch of ChatBot.chat: everything from
\* session.post on runs inside try / except Exception
RemoteChat(o) ==
    IF o.kind = "raise" THEN Returned(ERROR_PREFIX \o o.text)
    ELSE IF "error" \in DOMAIN o.data
         THEN Returned(ERROR_PREFIX \o Get(o.data.error, "message", UNKNOWN_ERROR))
    ELSE IF "choices" \notin DOMAIN o.data
         THEN Returned(ERROR_PREFIX \o KEY_ERROR_CHOICES)
    ELSE IF o.data.choices = << >>
         THEN Returned(ERROR_PREFIX \o INDEX_ERROR)
    ELSE Returned(o.data.choices[1].message.content)

\* LatestContent reading the first turn of the list (messages[0]) instead
\* of the last
LatestContent_First(messages) ==
    IF messages = << >> THEN << >> ELSE messages[1].content

\* src/app.py:39  messages[-1]["content"] if messages else ""
LatestContent(messages) ==
    IF messages = << >> THEN << >> ELSE messages[Len(messages)].content

\* src/app.py:36-63  ChatBot.chat
Chat(messages, demo, o) ==
    IF demo THEN Returned(DemoResponse(LatestContent(messages)))
    ELSE RemoteChat(o)

\* ------------------------------------------------------------- the store
\* a turn of src/app.py:134, 147; the field call is auxiliary: it names the
\* chat call that wrote the turn and is never read by the program
Turn(role, content, id) ==
    [role |-> role, content |-> content, call |-> id]

\* src/app.py:32-34  self.system_prompt (the line breaks and the
\* indentation of the literal included)
SYSTEM_PROMPT ==
    <<89, 111, 117, 32, 97, 114, 101, 32, 97, 32, 104, 101, 108, 112, 102,
    117, 108, 44, 32, 102, 114, 105, 101, 110, 100, 108, 121, 32, 65, 73, 32,
    97, 115, 115, 105, 115, 116, 97, 110, 116, 46, 10, 32, 32, 32, 32, 32,
    32, 32, 32, 89, 111, 117, 32, 103, 105, 118, 101, 32, 99, 108, 101, 97,
    114, 44, 32, 99, 111, 110, 99, 105, 115, 101, 32, 97, 110, 115, 119, 101,
    114, 115, 32, 97, 110, 100, 32, 104, 97, 118, 101, 32, 97, 32, 119, 97,
    114, 109, 32, 99, 111, 110, 118, 101, 114, 115, 97, 116, 105, 111, 110,
    97, 108, 32, 116, 111, 110, 101, 46, 10, 32, 32, 32, 32, 32, 32, 32, 32,
    73, 102, 32, 121, 111, 117, 32, 100, 111, 110, 39, 116, 32, 107, 110,
    111, 119, 32, 115, 111, 109, 101, 116, 104, 105, 110, 103, 44, 32, 121,
    111, 117, 32, 115, 97, 121, 32, 115, 111, 32, 104, 111, 110, 101, 115,
    116, 108, 121, 46>>

\* src/app.py:52  {"role": "system", "content": self.system_prompt}; the
\* auxiliary field names the call whose request carries it
SystemTurn(id) ==
    Turn("system", SYSTEM_PROMPT, id)

\* src/app.py:49-56  the json argument of session.post: the list
\* [system turn] + messages is a new list
RequestJson(messages, id) ==
    [model |-> MODEL_NAME,
     messages |-> << SystemTurn(id) >> \o messages,
     temperature |-> "0.7",
     max_tokens |-> 500]

\* the Python slice s[-n:]
LastSlice(s, n) ==
    IF Len(s) <= n THEN s ELSE SubSeq(s, Len(s) - n + 1, Len(s))

\* the text every turn of a starting history carries
HISTORY_TEXT ==
    <<116, 104, 97, 110, 107, 115>>

\* the conversation left by k earlier chat calls that ran one after the
\* other (src/app.py:132-152 applied k times); their calls are numbered
\* 1-k .. 0
History(k, demo) ==
    [i \in 1..(2 * k) |->
        IF i % 2 = 1
        THEN Turn("user", HISTORY_TEXT, ((i + 1) \div 2) - k)
        ELSE Turn("assistant",
                  Chat(<< Turn("user", HISTORY_TEXT, 0) >>, demo,
                       OK_OUTCOME).value,
                  (i \div 2) - k)]

\* numbers of earlier calls a behaviour may start from: none, and the ones
\* that leave the conversation at the cap or one call below it
StartPairs ==
    {0} \cup ((MAX_MESSAGES \div 2 - 1)..(MAX_MESSAGES \div 2))

\* src/app.py:23 after some earlier traffic on the default conversation
StartStores(demo) ==
    { << >> } \cup { [c \in {DEFAULT_ID} |-> History(k, demo)] : k \in StartPairs }

\* ------------------------------------------------------------- requests
\* JSON bodies of POST /api/chat: message missing, blank or padded;
\* conversation_id missing or given
MESSAGES ==
    { <<32, 9, 10>>, <<32, 116, 104, 97, 110, 107, 115, 32>> }

IDS ==
    { "c1" }

Bodies(msgs, ids) ==
    { << >> }
    \cup { [message |-> m] : m \in msgs }
    \cup { [conversation_id |-> c] : c \in ids }
    \cup { [message |-> m, conversation_id |-> c] : m \in msgs, c \in ids }

ChatBodies ==
    Bodies(MESSAGES, IDS)

\* the bodies and the outcome used where two calls race: a missing or a
\* padded message; the outbound call completes (its failures are explored
\* where requests do not overlap)
RaceBodies ==
    Bodies({ <<32, 116, 104, 97, 110, 107, 115, 32>> }, IDS)

RaceOutcomes ==
    { OK_OUTCOME }

\* JSON bodies of POST /api/clear
ClearBodies ==
    { << >> } \cup { [conversation_id |-> c] : c \in IDS }

\* src/app.py:126
BAD_REQUEST ==
    [status |-> 400, body |-> [error |-> "Message is required"]]

\* src/app.py:154-158 (the timestamp is wall-clock time and is left out)
ChatOk(response, demo) ==
    [status |-> 200, body |-> [response |-> response, demo_mode |-> demo]]

\* what Flask answers when the view function raises
SERVER_ERROR ==
    [status |-> 500, body |-> << >>]

\* src/app.py:170
CLEAR_OK ==
    [status |-> 200, body |-> [success |-> TRUE]]

\* StatusOk reporting bot.model whatever the mode
StatusOk_BotModel(demo) ==
    [status |-> 200,
     body |-> [status |-> "operational", demo_mode |-> demo,
               model |-> MODEL_NAME]]

\* src/app.py:176-180
StatusOk(demo) ==
    [status |-> 200,
     body |-> [status |-> "operational", demo_mode |-> demo,
               model |-> IF ~demo THEN MODEL_NAME ELSE "demo"]]

\* no request answered yet / request in progress
PENDING ==
    [status |-> 0, body |-> << >>]

NO_REQUEST ==
    [route |-> "none", data |-> << >>]

\* ------------------------------------------------------------------ state
VARIABLES
    DEMO_MODE,        \* src/app.py:20, fixed at import time
    conversations,    \* src/app.py:23, dict: conversation id -> list of turns
    pc,               \* per thread: "idle" (waiting for a request), the
                      \* statement of chat() it is about to run, or "done"
                      \* (view function returned, response not yet sent)
    req,              \* per thread: the request it is serving or served last
    resp,             \* per thread: the HTTP response to that request
    user_message,     \* per thread: local of chat(), src/app.py:122
    conversation_id,  \* per thread: local of chat(), src/app.py:123
    response,         \* per thread: local of chat(), src/app.py:141
    sliced,           \* per thread: value of conversations[id][-20:] at
                      \* src/app.py:152 before it is stored
    call,             \* auxiliary, per thread: number of its chat call
    nextCall,         \* auxiliary: number of the next accepted chat call
    pre,              \* auxiliary, per thread inside chat(): the entry of
                      \* its conversation (if there was one) when the call
                      \* began
    raced,            \* auxiliary, per thread: kinds of request ("chat",
                      \* "clear") that touched its conversation while its
                      \* chat call was running
    invoked,          \* auxiliary, per thread: the provider was called for
                      \* its request
    json,             \* per thread: the body of the request session.post
                      \* has sent (src/app.py:49-56) while its response is
                      \* awaited, << >> otherwise
    log               \* auxiliary, per conversation: every turn appended
                      \* since the conversation first appeared or was last
                      \* emptied by clear_conversation()

vars ==
    << DEMO_MODE, conversations, pc, req, resp, user_message, conversation_id,
       response, sliced, call, nextCall, pre, raced, invoked, json, log >>

\* the locals of a thread that is not inside chat()
locals ==
    << user_message, conversation_id, response, sliced >>

\* src/app.py:16-23, 109: the module has been imported, no request yet; the
\* store is empty or holds what earlier sequential traffic left
Init ==
    /\ DEMO_MODE \in BOOLEAN
    /\ conversations \in StartStores(DEMO_MODE)
    /\ log = conversations
    /\ pc = [t \in Threads |-> "idle"]
    /\ req = [t \in Threads |-> NO_REQUEST]
    /\ resp = [t \in Threads |-> PENDING]
    /\ user_message = [t \in Threads |-> << >>]
    /\ conversation_id = [t \in Threads |-> DEFAULT_ID]
    /\ response = [t \in Threads |-> << >>]
    /\ sliced = [t \in Threads |-> << >>]
    /\ call = [t \in Threads |-> 0]
    /\ nextCall = 1
    /\ pre = [t \in Threads |-> << >>]
    /\ raced = [t \in Threads |-> {}]
    /\ invoked = [t \in Threads |-> FALSE]
    /\ json = [t \in Threads |-> << >>]

\* src/app.py:123, 165  the conversation the request of thread t names
ReqId(t) ==
    Get(req[t].data, "conversation_id", DEFAULT_ID)

\* src/app.py:122  the message of the request of thread t, stripped
ReqMessage(t) ==
    Strip(Get(req[t].data, "message", << >>))

\* thread u is inside chat() working on conversation c
Active(u, c) ==
    pc[u] \notin {"idle", "done"} /\ conversation_id[u] = c

\* bookkeeping at the start of a request of thread t that touches c: t has
\* been raced if a chat call on c is running, and every other thread whose
\* chat call on c is running or not yet answered is raced by t
Touch(t, c, kind) ==
    [u \in Threads |->
        IF u = t
        THEN IF kind = "chat" /\ \E v \in Threads \ {t} : Active(v, c)
             THEN {"chat"} ELSE {}
        ELSE IF pc[u] # "idle" /\ req[u].route = "chat" /\ ReqId(u) = c
             THEN raced[u] \cup {kind} ELSE raced[u]]

\* chat() returns: the thread answers and forgets its locals
Leave(t, answer) ==
    /\ resp' = [resp EXCEPT ![t] = answer]
    /\ pc' = [pc EXCEPT ![t] = "done"]
    /\ user_message' = [user_message EXCEPT ![t] = << >>]
    /\ conversation_id' = [conversation_id EXCEPT ![t] = DEFAULT_ID]
    /\ response' = [response EXCEPT ![t] = << >>]
    /\ sliced' = [sliced EXCEPT ![t] = << >>]

\* ChatReject with the get-or-create of lines 129-130 moved ahead of the
\* validation
ChatReject_CreatesEntry(t, bodies) ==
    /\ pc[t] = "idle"
    /\ \E data \in bodies :
         LET id == Get(data, "conversation_id", DEFAULT_ID) IN
         /\ Strip(Get(data, "message", << >>)) = << >>
         /\ req' = [req EXCEPT ![t] = [route |-> "chat", data |-> data]]
         /\ raced' = [raced EXCEPT ![t] = {}]
         /\ IF id \in DOMAIN conversations
            THEN UNCHANGED << conversations, log >>
            ELSE /\ conversations' = Put(conversations, id, << >>)
                 /\ log' = Put(log, id, << >>)
    /\ resp' = [resp EXCEPT ![t] = BAD_REQUEST]
    /\ pc' = [pc EXCEPT ![t] = "done"]
    /\ invoked' = [invoked EXCEPT ![t] = FALSE]
    /\ UNCHANGED << pre, DEMO_MODE, json, locals, call, nextCall >>

\* src/app.py:121-126  chat(): the message is empty after strip()
ChatReject(t, bodies) ==
    /\ pc[t] = "idle"
    /\ \E data \in bodies :
         /\ Strip(Get(data, "message", << >>)) = << >>
         /\ req' = [req EXCEPT ![t] = [route |-> "chat", data |-> data]]
         /\ raced' = [raced EXCEPT ![t] = {}]
    /\ resp' = [resp EXCEPT ![t] = BAD_REQUEST]
    /\ pc' = [pc EXCEPT ![t] = "done"]
    /\ invoked' = [invoked EXCEPT ![t] = FALSE]
    /\ UNCHANGED << pre, DEMO_MODE, json, conversations, locals, call, nextCall, log >>

\* src/app.py:121-129  chat(): the message is accepted and the membership
\* test of line 129 is evaluated
ChatAccept(t, bodies, limit) ==
    /\ pc[t] = "idle"
    /\ nextCall <= limit
    /\ \E data \in bodies :
         LET um == Strip(Get(data, "message", << >>))
             id == Get(data, "conversation_id", DEFAULT_ID)
         IN /\ um # << >>
            /\ req' = [req EXCEPT ![t] = [route |-> "chat", data |-> data]]
            /\ user_message' = [user_message EXCEPT ![t] = um]
            /\ conversation_id' = [conversation_id EXCEPT ![t] = id]
            /\ pc' = [pc EXCEPT ![t] =
                        IF id \notin DOMAIN conversations
                        THEN "create" ELSE "append_user"]
            /\ raced' = Touch(t, id, "chat")
            /\ pre' = [pre EXCEPT ![t] =
                         [c \in (DOMAIN conversations) \cap {id} |->
                             conversations[c]]]
    /\ resp' = [resp EXCEPT ![t] = PENDING]
    /\ call' = [call EXCEPT ![t] = nextCall]
    /\ nextCall' = nextCall + 1
    /\ invoked' = [invoked EXCEPT ![t] = FALSE]
    /\ UNCHANGED << DEMO_MODE, json, conversations, response, sliced, log >>

\* src/app.py:130  conversations[conversation_id] = []
Create(t) ==
    /\ pc[t] = "create"
    /\ conversations' = Put(conversations, conversation_id[t], << >>)
    /\ log' = IF conversation_id[t] \in DOMAIN log
              THEN log ELSE Put(log, conversation_id[t], << >>)
    /\ pc' = [pc EXCEPT ![t] = "append_user"]
    /\ UNCHANGED << DEMO_MODE, json, req, resp, locals, call, nextCall, pre, raced,
                    invoked >>

\* AppendUser storing the message as received, without strip()
AppendUser_Raw(t) ==
    /\ pc[t] = "append_user"
    /\ LET turn == Turn("user", Get(req[t].data, "message", << >>), call[t]) IN
         /\ conversations' = [conversations EXCEPT
                                ![conversation_id[t]] = Append(@, turn)]
         /\ log' = [log EXCEPT ![conversation_id[t]] = Append(@, turn)]
    /\ pc' = [pc EXCEPT ![t] = "get_response"]
    /\ UNCHANGED << DEMO_MODE, json, req, resp, locals, call, nextCall, pre, raced,
                    invoked >>

\* src/app.py:133-135  append the user turn
AppendUser(t) ==
    /\ pc[t] = "append_user"
    /\ LET turn == Turn("user", user_message[t], call[t]) IN
         /\ conversations' = [conversations EXCEPT
                                ![conversation_id[t]] = Append(@, turn)]
         /\ log' = [log EXCEPT ![conversation_id[t]] = Append(@, turn)]
    /\ pc' = [pc EXCEPT ![t] = "get_response"]
    /\ UNCHANGED << DEMO_MODE, json, req, resp, locals, call, nextCall, pre, raced,
                    invoked >>

\* src/app.py:138-143  response = bot.chat(conversations[conversation_id]);
\* an exception leaving bot.chat leaves chat() too
GetResponse(t, outcomes) ==
    /\ pc[t] = "get_response"
    /\ invoked' = [invoked EXCEPT ![t] = TRUE]
    /\ \E o \in (IF DEMO_MODE THEN {OK_OUTCOME} ELSE outcomes) :
         LET r == Chat(conversations[conversation_id[t]], DEMO_MODE, o) IN
         IF r.raised
         THEN Leave(t, SERVER_ERROR)
         ELSE /\ response' = [response EXCEPT ![t] = r.value]
              /\ pc' = [pc EXCEPT ![t] = "append_assistant"]
              /\ UNCHANGED << resp, user_message, conversation_id, sliced >>
    /\ UNCHANGED << DEMO_MODE, json, conversations, req, call, nextCall, pre, raced,
                    log >>

\* the outcome of an outbound call that was given no answer: the session
\* of src/app.py:41 is built without a timeout argument, so the client
\* library's default total timeout ends the call with
\* asyncio.TimeoutError, whose str() is empty
TIMEOUT_OUTCOME ==
    [kind |-> "raise", text |-> << >>]

\* Post putting the system turn into the list it was handed
\* (messages.insert(0, ...)) instead of building a new list
Post_InPlace(t) ==
    /\ pc[t] = "get_response"
    /\ ~ DEMO_MODE
    /\ invoked' = [invoked EXCEPT ![t] = TRUE]
    /\ conversations' = [conversations EXCEPT
                           ![conversation_id[t]] = << SystemTurn(call[t]) >> \o @]
    /\ json' = [json EXCEPT ![t] =
                  [model |-> MODEL_NAME,
                   messages |-> conversations'[conversation_id[t]],
                   temperature |-> "0.7",
                   max_tokens |-> 500]]
    /\ pc' = [pc EXCEPT ![t] = "await_response"]
    /\ UNCHANGED << DEMO_MODE, req, resp, locals, call, nextCall, pre, raced,
                    log >>

\* src/app.py:138-141, 41-57  remote mode: bot.chat builds the request,
\* session.post sends it and the coroutine waits for the response
Post(t) ==
    /\ pc[t] = "get_response"
    /\ ~ DEMO_MODE
    /\ invoked' = [invoked EXCEPT ![t] = TRUE]
    /\ json' = [json EXCEPT ![t] =
                  RequestJson(conversations[conversation_id[t]], call[t])]
    /\ pc' = [pc EXCEPT ![t] = "await_response"]
    /\ UNCHANGED << DEMO_MODE, conversations, req, resp, locals, call,
                    nextCall, pre, raced, log >>

\* src/app.py:57-63, 141-143  the wait ends with outcome o and bot.chat
\* returns (or raises) into chat()
Resume(t, o) ==
    /\ pc[t] = "await_response"
    /\ LET r == RemoteChat(o) IN
         IF r.raised
         THEN Leave(t, SERVER_ERROR)
         ELSE /\ response' = [response EXCEPT ![t] = r.value]
              /\ pc' = [pc EXCEPT ![t] = "append_assistant"]
              /\ UNCHANGED << resp, user_message, conversation_id, sliced >>
    /\ json' = [json EXCEPT ![t] = << >>]
    /\ UNCHANGED << DEMO_MODE, conversations, req, call, nextCall, pre, raced,
                    invoked, log >>

\* src/app.py:57-63  the response arrives, or the attempt fails, before
\* the timeout
Receive(t, outcomes) ==
    \E o \in outcomes : Resume(t, o)

\* Expire for a session whose total timeout is switched off
\* (ClientTimeout(total=None)): the wait is never ended from this side
Expire_Never(t) ==
    /\ pc[t] = "await_response"
    /\ FALSE
    /\ UNCHANGED vars

\* src/app.py:41, 62-63  no answer came: the timeout of the session ends
\* the wait
Expire(t) ==
    Resume(t, TIMEOUT_OUTCOME)

\* AppendAssistant writing to the default conversation whatever the request
\* named
AppendAssistant_Default(t) ==
    /\ pc[t] = "append_assistant"
    /\ LET turn == Turn("assistant", response[t], call[t])
           id == IF DEFAULT_ID \in DOMAIN conversations
                 THEN DEFAULT_ID ELSE conversation_id[t]
       IN /\ conversations' = [conversations EXCEPT ![id] = Append(@, turn)]
          /\ log' = [log EXCEPT ![id] = Append(@, turn)]
    /\ pc' = [pc EXCEPT ![t] = "trim_check"]
    /\ UNCHANGED << DEMO_MODE, json, req, resp, locals, call, nextCall, pre, raced,
                    invoked >>

\* AppendAssistant running the append of lines 146-148 twice
AppendAssistant_Twice(t) ==
    /\ pc[t] = "append_assistant"
    /\ LET turn == Turn("assistant", response[t], call[t]) IN
         /\ conversations' = [conversations EXCEPT
                                ![conversation_id[t]] = Append(Append(@, turn), turn)]
         /\ log' = [log EXCEPT ![conversation_id[t]] = Append(Append(@, turn), turn)]
    /\ pc' = [pc EXCEPT ![t] = "trim_check"]
    /\ UNCHANGED << DEMO_MODE, json, req, resp, locals, call, nextCall, pre, raced,
                    invoked >>

\* src/app.py:146-148  append the assistant turn
AppendAssistant(t) ==
    /\ pc[t] = "append_assistant"
    /\ LET turn == Turn("assistant", response[t], call[t]) IN
         /\ conversations' = [conversations EXCEPT
                                ![conversation_id[t]] = Append(@, turn)]
         /\ log' = [log EXCEPT ![conversation_id[t]] = Append(@, turn)]
    /\ pc' = [pc EXCEPT ![t] = "trim_check"]
    /\ UNCHANGED << DEMO_MODE, json, req, resp, locals, call, nextCall, pre, raced,
                    invoked >>

\* src/app.py:151  the length test is false: return, src/app.py:154-158
TrimSkip(t) ==
    /\ pc[t] = "trim_check"
    /\ ~ (Len(conversations[conversation_id[t]]) > MAX_MESSAGES)
    /\ Leave(t, ChatOk(response[t], DEMO_MODE))
    /\ UNCHANGED << DEMO_MODE, json, conversations, req, call, nextCall, pre, raced,
                    invoked, log >>

\* src/app.py:151  the length test is true
TrimCheck(t) ==
    /\ pc[t] = "trim_check"
    /\ Len(conversations[conversation_id[t]]) > MAX_MESSAGES
    /\ pc' = [pc EXCEPT ![t] = "trim_slice"]
    /\ UNCHANGED << DEMO_MODE, json, conversations, req, resp, locals, call,
                    nextCall, pre, raced, invoked, log >>

\* TrimSlice keeping the first 20 turns ([:20]) instead of the last 20
TrimSlice_Oldest(t) ==
    /\ pc[t] = "trim_slice"
    /\ sliced' = [sliced EXCEPT ![t] =
                    SubSeq(conversations[conversation_id[t]], 1, MAX_MESSAGES)]
    /\ pc' = [pc EXCEPT ![t] = "trim_store"]
    /\ UNCHANGED << DEMO_MODE, json, conversations, req, resp, user_message,
                    conversation_id, response, call, nextCall, pre, raced,
                    invoked, log >>

\* TrimSlice keeping one turn fewer ([-19:])
TrimSlice_OneShort(t) ==
    /\ pc[t] = "trim_slice"
    /\ sliced' = [sliced EXCEPT ![t] =
                    LastSlice(conversations[conversation_id[t]],
                              MAX_MESSAGES - 1)]
    /\ pc' = [pc EXCEPT ![t] = "trim_store"]
    /\ UNCHANGED << DEMO_MODE, json, conversations, req, resp, user_message,
                    conversation_id, response, call, nextCall, pre, raced,
                    invoked, log >>

\* src/app.py:152  the right-hand side  conversations[conversation_id][-20:]
TrimSlice(t) ==
    /\ pc[t] = "trim_slice"
    /\ sliced' = [sliced EXCEPT ![t] =
                    LastSlice(conversations[conversation_id[t]], MAX_MESSAGES)]
    /\ pc' = [pc EXCEPT ![t] = "trim_store"]
    /\ UNCHANGED << DEMO_MODE, json, conversations, req, resp, user_message,
                    conversation_id, response, call, nextCall, pre, raced,
                    invoked, log >>

\* src/app.py:152  the assignment, then return, src/app.py:154-158
TrimStore(t) ==
    /\ pc[t] = "trim_store"
    /\ conversations' = [conversations EXCEPT
                           ![conversation_id[t]] = sliced[t]]
    /\ Leave(t, ChatOk(response[t], DEMO_MODE))
    /\ UNCHANGED << DEMO_MODE, json, req, call, nextCall, pre, raced, invoked, log >>

\* Clear without the membership test of line 167
Clear_Always(t) ==
    /\ pc[t] = "idle"
    /\ \E data \in ClearBodies :
         LET id == Get(data, "conversation_id", DEFAULT_ID) IN
         /\ req' = [req EXCEPT ![t] = [route |-> "clear", data |-> data]]
         /\ conversations' = Put(conversations, id, << >>)
         /\ log' = Put(log, id, << >>)
         /\ raced' = Touch(t, id, "clear")
    /\ resp' = [resp EXCEPT ![t] = CLEAR_OK]
    /\ pc' = [pc EXCEPT ![t] = "done"]
    /\ invoked' = [invoked EXCEPT ![t] = FALSE]
    /\ UNCHANGED << pre, DEMO_MODE, json, locals, call, nextCall >>

\* src/app.py:161-170  clear_conversation(); the membership test and the
\* assignment are taken as one step: no statement removes a key, so the
\* test cannot be invalidated before the assignment
Clear(t) ==
    /\ pc[t] = "idle"
    /\ \E data \in ClearBodies :
         LET id == Get(data, "conversation_id", DEFAULT_ID) IN
         /\ req' = [req EXCEPT ![t] = [route |-> "clear", data |-> data]]
         /\ IF id \in DOMAIN conversations
            THEN /\ conversations' = [conversations EXCEPT ![id] = << >>]
                 /\ log' = [log EXCEPT ![id] = << >>]
            ELSE UNCHANGED << conversations, log >>
         /\ raced' = Touch(t, id, "clear")
    /\ resp' = [resp EXCEPT ![t] = CLEAR_OK]
    /\ pc' = [pc EXCEPT ![t] = "done"]
    /\ invoked' = [invoked EXCEPT ![t] = FALSE]
    /\ UNCHANGED << pre, DEMO_MODE, json, locals, call, nextCall >>

\* src/app.py:173-180  status()
Status(t) ==
    /\ pc[t] = "idle"
    /\ req' = [req EXCEPT ![t] = [route |-> "status", data |-> << >>]]
    /\ resp' = [resp EXCEPT ![t] = StatusOk(DEMO_MODE)]
    /\ pc' = [pc EXCEPT ![t] = "done"]
    /\ invoked' = [invoked EXCEPT ![t] = FALSE]
    /\ raced' = [raced EXCEPT ![t] = {}]
    /\ UNCHANGED << pre, DEMO_MODE, json, conversations, locals, call, nextCall, log >>

\* the response has been sent: the thread waits for its next request
Deliver(t) ==
    /\ pc[t] = "done"
    /\ pc' = [pc EXCEPT ![t] = "idle"]
    /\ req' = [req EXCEPT ![t] = NO_REQUEST]
    /\ resp' = [resp EXCEPT ![t] = PENDING]
    /\ call' = [call EXCEPT ![t] = 0]
    /\ pre' = [pre EXCEPT ![t] = << >>]
    /\ raced' = [raced EXCEPT ![t] = {}]
    /\ invoked' = [invoked EXCEPT ![t] = FALSE]
    /\ UNCHANGED << DEMO_MODE, json, conversations, locals, nextCall, log >>

\* a response is sent as soon as its view function has returned: sending
\* changes no program variable, so taking it first hides no interleaving
\* of the statements of the handlers
Ready(t) ==
    \A u \in Threads \ {t} : pc[u] # "done"

\* the server hands a new request to a free thread; threads differ in
\* nothing but their name, so it is always the free thread with the lowest
\* number
Free(t) ==
    \A u \in Threads : u < t => pc[u] # "idle"

\* request threads run concurrently (app.run serves each request in its own
\* thread) and may be switched between any two statements
Next ==
    \E t \in Threads :
        \/ Ready(t) /\ Free(t) /\ ChatReject(t, RaceBodies)
        \/ Ready(t) /\ Free(t) /\ ChatAccept(t, RaceBodies, MaxCalls)
        \/ Ready(t) /\ Create(t)
        \/ Ready(t) /\ AppendUser(t)
        \/ Ready(t) /\ GetResponse(t, RaceOutcomes)
        \/ Ready(t) /\ AppendAssistant(t)
        \/ Ready(t) /\ TrimSkip(t)
        \/ Ready(t) /\ TrimCheck(t)
        \/ Ready(t) /\ TrimSlice(t)
        \/ Ready(t) /\ TrimStore(t)
        \/ Ready(t) /\ Free(t) /\ Clear(t)
        \/ Ready(t) /\ Free(t) /\ Status(t)
        \/ Ready(t) /\ Deliver(t)

Spec ==
    Init /\ [][Next]_vars

\* every other thread waits for a request
Alone(t) ==
    \A u \in Threads \ {t} : pc[u] = "idle"

\* requests that never overlap
NextSeq ==
    \E t \in Threads :
        \/ Alone(t) /\ Free(t) /\ ChatReject(t, ChatBodies)
        \/ Alone(t) /\ Free(t) /\ ChatAccept(t, ChatBodies, MaxCalls)
        \/ Alone(t) /\ Create(t)
        \/ Alone(t) /\ AppendUser(t)
        \/ Alone(t) /\ GetResponse(t, Outcomes)
        \/ Alone(t) /\ AppendAssistant(t)
        \/ Alone(t) /\ TrimSkip(t)
        \/ Alone(t) /\ TrimCheck(t)
        \/ Alone(t) /\ TrimSlice(t)
        \/ Alone(t) /\ TrimStore(t)
        \/ Alone(t) /\ Free(t) /\ Clear(t)
        \/ Alone(t) /\ Free(t) /\ Status(t)
        \/ Alone(t) /\ Deliver(t)

SpecSeq ==
    Init /\ [][NextSeq]_vars

\* ------------------------------------------------- probing the matcher
\* words and marks the probe texts are put together from: every keyword of
\* src/app.py:69-103 in some letter case, a word that hides "hi", a word
\* in upper case with no keyword, a blank
FRAGMENTS ==
    { <<72, 101, 108, 108, 111>>, <<104, 105>>, <<72, 69, 89>>,
      <<104, 111, 119, 32, 97, 114, 101, 32, 121, 111, 117>>,
      <<104, 101, 108, 112>>, <<99, 97, 110, 32, 121, 111, 117>>,
      <<87, 104, 97, 116, 32, 99, 97, 110>>, <<99, 111, 100, 101>>,
      <<80, 114, 111, 103, 114, 97, 109, 109, 105, 110, 103>>,
      <<112, 121, 116, 104, 111, 110>>,
      <<119, 101, 97, 116, 104, 101, 114>>, <<84, 104, 97, 110, 107>>,
      <<116, 104, 97, 110, 107, 115>>, <<63>>, <<79, 75>>, <<32>>,
      <<84, 104, 105, 115>> }

RECURSIVE TextsOf(_)
TextsOf(n) ==
    IF n = 0 THEN { << >> }
    ELSE LET shorter == TextsOf(n - 1) IN
         shorter \cup { s \o f : s \in shorter, f \in FRAGMENTS }

ProbeBodies ==
    Bodies(TextsOf(MaxFragments), {})

\* demo mode (no OPENAI_API_KEY), the store empty or the default
\* conversation at the cap; one accepted chat call per behaviour, its
\* message drawn from the probe texts
InitCanned ==
    /\ Init
    /\ DEMO_MODE
    /\ \A c \in DOMAIN conversations : Len(conversations[c]) = MAX_MESSAGES

NextCanned ==
    \E t \in Threads :
        \/ Alone(t) /\ Free(t) /\ ChatReject(t, ChatBodies)
        \/ Alone(t) /\ Free(t) /\ ChatAccept(t, ProbeBodies, 1)
        \/ Alone(t) /\ Create(t)
        \/ Alone(t) /\ AppendUser(t)
        \/ Alone(t) /\ GetResponse(t, Outcomes)
        \/ Alone(t) /\ AppendAssistant(t)
        \/ Alone(t) /\ TrimSkip(t)
        \/ Alone(t) /\ TrimCheck(t)
        \/ Alone(t) /\ TrimSlice(t)
        \/ Alone(t) /\ TrimStore(t)
        \/ Alone(t) /\ Free(t) /\ Clear(t)
        \/ Alone(t) /\ Free(t) /\ Status(t)
        \/ Alone(t) /\ Deliver(t)

SpecCanned ==
    InitCanned /\ [][NextCanned]_vars

\* ------------------------------------------------- waiting for the remote
\* remote mode (OPENAI_API_KEY set) with the outbound call as two steps, so
\* that a call can be seen waiting: the store starts empty or with the
\* default conversation at the cap, requests overlap, the remote end
\* answers when it likes or never
InitLive ==
    /\ Init
    /\ ~ DEMO_MODE
    /\ \A c \in DOMAIN conversations : Len(conversations[c]) = MAX_MESSAGES

\* the bodies of the chat requests made while calls wait: message missing
\* or padded, always for the default conversation, so that calls that
\* overlap work on the same list
LiveBodies ==
    Bodies({ <<32, 116, 104, 97, 110, 107, 115, 32>> }, {})

\* the graph of this specification is searched for cycles, which costs
\* far more than a search for a state: it admits one call fewer
LiveCalls ==
    MaxCalls - 1

NextLive ==
    \E t \in Threads :
        \/ Ready(t) /\ Free(t) /\ ChatReject(t, LiveBodies)
        \/ Ready(t) /\ Free(t) /\ ChatAccept(t, LiveBodies, LiveCalls)
        \/ Ready(t) /\ Create(t)
        \/ Ready(t) /\ AppendUser(t)
        \/ Ready(t) /\ Post(t)
        \/ Ready(t) /\ Receive(t, RaceOutcomes)
        \/ Ready(t) /\ Expire(t)
        \/ Ready(t) /\ AppendAssistant(t)
        \/ Ready(t) /\ TrimSkip(t)
        \/ Ready(t) /\ TrimCheck(t)
        \/ Ready(t) /\ TrimSlice(t)
        \/ Ready(t) /\ TrimStore(t)
        \/ Ready(t) /\ Free(t) /\ Clear(t)
        \/ Ready(t) /\ Free(t) /\ Status(t)
        \/ Ready(t) /\ Deliver(t)

\* the steps thread t takes by itself once it has a request: the
\* statements of chat(), the timer of the session, the sending of the
\* response. Accepting a request and the answer of the remote end are not
\* among them: they depend on a client and on the remote service.
Runs(t) ==
    \/ Create(t)
    \/ AppendUser(t)
    \/ Post(t)
    \/ Expire(t)
    \/ AppendAssistant(t)
    \/ TrimSkip(t)
    \/ TrimCheck(t)
    \/ TrimSlice(t)
    \/ TrimStore(t)
    \/ Deliver(t)

\* every request thread is an operating-system thread that is scheduled
\* again and again, and the event loop of src/app.py:138-141 runs its
\* timers: a thread that can take a step of its own does not wait for ever
FairLive ==
    \A t \in Threads : WF_vars(Runs(t))

SpecLive ==
    InitLive /\ [][NextLive]_vars /\ FairLive

\* ------------------------------------------------ the same text, twice
\* demo mode, requests one after the other, several accepted calls per
\* behaviour: the same text with and without padding and a text no rule but
\* the last matches, for the default conversation (empty or at the cap
\* with the turns of earlier calls) and for one never seen
PAIR_MESSAGES ==
    { <<32, 116, 104, 97, 110, 107, 115, 32>>,
      <<116, 104, 97, 110, 107, 115>>,
      <<111, 107>> }

PairBodies ==
    Bodies(PAIR_MESSAGES, IDS)

NextPair ==
    \E t \in Threads :
        \/ Alone(t) /\ Free(t) /\ ChatReject(t, PairBodies)
        \/ Alone(t) /\ Free(t) /\ ChatAccept(t, PairBodies, MaxCalls)
        \/ Alone(t) /\ Create(t)
        \/ Alone(t) /\ AppendUser(t)
        \/ Alone(t) /\ GetResponse(t, Outcomes)
        \/ Alone(t) /\ AppendAssistant(t)
        \/ Alone(t) /\ TrimSkip(t)
        \/ Alone(t) /\ TrimCheck(t)
        \/ Alone(t) /\ TrimSlice(t)
        \/ Alone(t) /\ TrimStore(t)
        \/ Alone(t) /\ Free(t) /\ Clear(t)
        \/ Alone(t) /\ Free(t) /\ Status(t)
        \/ Alone(t) /\ Deliver(t)

SpecPair ==
    InitCanned /\ [][NextPair]_vars

\* ------------------------------------------------- the request on the wire
\* remote mode, requests one after the other, the outbound call as two
\* steps so that the body of the request can be looked at
InitWire ==
    /\ Init
    /\ ~ DEMO_MODE

NextWire ==
    \E t \in Threads :
        \/ Alone(t) /\ Free(t) /\ ChatReject(t, ChatBodies)
        \/ Alone(t) /\ Free(t) /\ ChatAccept(t, ChatBodies, MaxCalls)
        \/ Alone(t) /\ Create(t)
        \/ Alone(t) /\ AppendUser(t)
        \/ Alone(t) /\ Post(t)
        \/ Alone(t) /\ Receive(t, Outcomes)
        \/ Alone(t) /\ Expire(t)
        \/ Alone(t) /\ AppendAssistant(t)
        \/ Alone(t) /\ TrimSkip(t)
        \/ Alone(t) /\ TrimCheck(t)
        \/ Alone(t) /\ TrimSlice(t)
        \/ Alone(t) /\ TrimStore(t)
        \/ Alone(t) /\ Free(t) /\ Clear(t)
        \/ Alone(t) /\ Free(t) /\ Status(t)
        \/ Alone(t) /\ Deliver(t)

SpecWire ==
    InitWire /\ [][NextWire]_vars

\* ---------------------------------------------------------------- claims
\* thread t has finished a chat request and its response is about to be sent
DoneChat(t) ==
    pc[t] = "done" /\ req[t].route = "chat"

\* the message of the request as received (str.strip not applied)
RawMessage(t) ==
    Get(req[t].data, "message", << >>)

\* a text with nothing but white space in it (the empty text included)
Blank(s) ==
    \A i \in 1..Len(s) : IsSpace(s[i])

\* s without its leading and trailing white space, said without recursion:
\* the part of s from its first to its last non-blank character
Trimmed(s) ==
    IF Blank(s) THEN << >>
    ELSE LET solid == { i \in 1..Len(s) : ~ IsSpace(s[i]) }
             first == CHOOSE i \in solid : \A j \in solid : i <= j
             last == CHOOSE i \in solid : \A j \in solid : j <= i
         IN [k \in 1..(last - first + 1) |-> s[first + k - 1]]

\* the conversation the chat call of t names, as it was when the call began
Before(t) ==
    Get(pre[t], ReqId(t), << >>)

\* the n most recent elements of s, in the order they have in s
MostRecent(s, n) ==
    LET keep == IF Len(s) < n THEN Len(s) ELSE n IN
    [k \in 1..keep |-> s[Len(s) - keep + k]]

\* the two turns the chat call of t is to leave behind
ExpectedUser(t) ==
    [role |-> "user", content |-> Trimmed(RawMessage(t)), call |-> call[t]]

ExpectedAssistant(t) ==
    [role |-> "assistant", content |-> resp[t].body.response, call |-> call[t]]

\* the conversation after a chat call of t that nothing interfered with
ExpectedConversation(t) ==
    MostRecent(Before(t) \o << ExpectedUser(t), ExpectedAssistant(t) >>,
               MAX_MESSAGES)

\* the thread that takes the step, and the conversation its request names
Moves(t) ==
    pc'[t] # pc[t]

Target(t) ==
    IF pc[t] = "idle"
    THEN Get(req'[t].data, "conversation_id", DEFAULT_ID)
    ELSE IF pc[t] = "done" THEN ReqId(t) ELSE conversation_id[t]

\* the step leaves every conversation but c as it was: none changed, none
\* removed, none created
OnlyChanges(c) ==
    /\ DOMAIN conversations \subseteq DOMAIN conversations'
    /\ DOMAIN conversations' \subseteq (DOMAIN conversations) \cup {c}
    /\ \A d \in DOMAIN conversations \ {c} : conversations'[d] = conversations[d]

\* C1: a chat request whose message is not blank is answered 200, and when
\* it returns its conversation is what it was when the call began plus one
\* user turn carrying the stripped message followed by one assistant turn
\* carrying the returned reply (cut to its 20 most recent turns); no step
\* of a chat request touches any other conversation.
C1_AppendsOneUserOneAssistant ==
    /\ [](\A t \in Threads :
            (DoneChat(t) /\ ~ Blank(RawMessage(t))) =>
                /\ resp[t].status = 200
                /\ ReqId(t) \in DOMAIN conversations
                /\ conversations[ReqId(t)] = ExpectedConversation(t))
    /\ [][\A t \in Threads :
            (Moves(t) /\ (req[t].route = "chat" \/ req'[t].route = "chat")) =>
                OnlyChanges(Target(t))]_vars

\* C1 witness: a padded message was answered on a conversation that already
\* held turns and stayed under the cap
C1_Witness ==
    \E t \in Threads :
        /\ DoneChat(t) /\ resp[t].status = 200
        /\ RawMessage(t) # Trimmed(RawMessage(t))
        /\ Before(t) # << >>
        /\ Len(conversations[ReqId(t)]) = Len(Before(t)) + 2

\* C2: no turn that was appended to a conversation is missing from it,
\* except turns that are no longer among the 20 most recently appended.
C2_NoLostUpdate ==
    \A c \in DOMAIN conversations :
        \A i \in 1..Len(log[c]) :
            (i > Len(log[c]) - MAX_MESSAGES) =>
                \E j \in 1..Len(conversations[c]) : conversations[c][j] = log[c][i]

\* C3: in every stored conversation a user turn that is not the last turn is
\* followed at once by the assistant turn of the same call.
C3_AppendsNotInterleaved ==
    \A c \in DOMAIN conversations :
        \A i \in 1..(Len(conversations[c]) - 1) :
            (conversations[c][i].role = "user") =>
                /\ conversations[c][i + 1].role = "assistant"
                /\ conversations[c][i + 1].call = conversations[c][i].call

\* C4: in every reachable state every conversation holds at most 20 turns.
C4_AtMostTwentyTurns ==
    \A c \in DOMAIN conversations : Len(conversations[c]) <= MAX_MESSAGES

\* C5: when no request is running, every conversation is exactly the 20 most
\* recently appended turns in append order, or all appended turns when fewer
\* than 21 were appended.
C5_KeepsTwentyMostRecent ==
    (\A t \in Threads : pc[t] \in {"idle", "done"}) =>
        \A c \in DOMAIN conversations :
            conversations[c] = MostRecent(log[c], MAX_MESSAGES)

\* C5 witness: a call has returned on a conversation to which more than 20
\* turns had been appended
C5_Witness ==
    \E t \in Threads :
        /\ DoneChat(t) /\ resp[t].status = 200
        /\ Len(log[ReqId(t)]) >= MAX_MESSAGES + 1
        /\ Len(conversations[ReqId(t)]) = MAX_MESSAGES

\* C6: a chat request whose message is missing, empty or only white space is
\* answered 400 "Message is required" without any provider call, and the
\* step that serves it leaves the whole store as it was (no entry created
\* either).
C6_BlankMessageRejected ==
    /\ [](\A t \in Threads :
            (DoneChat(t) /\ Blank(RawMessage(t))) =>
                /\ resp[t] = [status |-> 400,
                              body |-> [error |-> "Message is required"]]
                /\ ~ invoked[t])
    /\ [][\A t \in Threads :
            (/\ Moves(t)
             /\ req'[t].route = "chat"
             /\ Blank(Get(req'[t].data, "message", << >>))) =>
                conversations' = conversations]_vars

\* C6 witness: a white-space-only message for a conversation never seen
C6_Witness ==
    \E t \in Threads :
        /\ DoneChat(t) /\ resp[t].status = 400
        /\ RawMessage(t) # << >>
        /\ ReqId(t) \notin DOMAIN conversations

\* C7: a chat call that no request on the same conversation overlapped is
\* answered 200 and leaves in its conversation exactly what was there plus
\* its own two turns, whatever other conversations were being served at the
\* same time; and no step of any request changes (or creates, or removes) a
\* conversation other than the one the request names.
C7_DistinctConversationsIsolated ==
    /\ [](\A t \in Threads :
            (DoneChat(t) /\ ~ Blank(RawMessage(t)) /\ raced[t] = {}) =>
                /\ resp[t].status = 200
                /\ conversations[ReqId(t)] = ExpectedConversation(t))
    /\ [][\A t \in Threads : Moves(t) => OnlyChanges(Target(t))]_vars

\* C7 witness: a call returns while a call that began before it is still
\* running on another conversation and has already written there
C7_Witness ==
    \E t, u \in Threads :
        /\ DoneChat(t) /\ resp[t].status = 200 /\ raced[t] = {}
        /\ pc[u] \in {"get_response", "append_assistant", "trim_check"}
        /\ conversation_id[u] # ReqId(t)
        /\ call[u] < call[t]

\* C8: every chat request that passed validation is answered 200 with a
\* reply text, never 500, after the provider was called, and (requests not
\* overlapping) the last turn of its conversation is then the assistant
\* turn carrying that reply, whatever the outbound call did.
C8_ProviderNeverRaises ==
    \A t \in Threads :
        (DoneChat(t) /\ ~ Blank(RawMessage(t))) =>
            /\ resp[t].status = 200
            /\ invoked[t]
            /\ conversations[ReqId(t)] # << >>
            /\ conversations[ReqId(t)][Len(conversations[ReqId(t)])]
                 = ExpectedAssistant(t)

\* C8 witness: remote mode, the outbound call failed and the reply is an
\* error text
C8_Witness ==
    \E t \in Threads :
        /\ ~ DEMO_MODE
        /\ DoneChat(t) /\ resp[t].status = 200
        /\ Len(resp[t].body.response) >= Len(ERROR_PREFIX)
        /\ SubSeq(resp[t].body.response, 1, Len(ERROR_PREFIX)) = ERROR_PREFIX

\* C9: clear answers {success: true}; its step empties the conversation it
\* names if there is one (also when it was empty already) and changes
\* nothing else: every other conversation is as it was and an identifier
\* never seen has still no entry.
C9_ClearEmptiesAndIsIdempotent ==
    /\ [](\A t \in Threads :
            (pc[t] = "done" /\ req[t].route = "clear") =>
                /\ resp[t] = [status |-> 200, body |-> [success |-> TRUE]]
                /\ (ReqId(t) \in DOMAIN conversations =>
                       conversations[ReqId(t)] = << >>))
    /\ [][\A t \in Threads :
            (Moves(t) /\ req'[t].route = "clear") =>
                conversations' =
                    [c \in DOMAIN conversations |->
                        IF c = Target(t) THEN << >> ELSE conversations[c]]]_vars

\* C9 witness: clear on an identifier never seen, while another conversation
\* holds turns
C9_Witness ==
    \E t \in Threads :
        /\ pc[t] = "done" /\ req[t].route = "clear"
        /\ ReqId(t) \notin DOMAIN conversations
        /\ \E c \in DOMAIN conversations : conversations[c] # << >>

\* the condition of rule n of the canned provider on a text
RuleHolds(n, text) ==
    CASE n = 1 -> \E w \in GREETINGS : Contains(w, Lower(text))
      [] n = 2 -> Contains(HOW_ARE_YOU, Lower(text))
      [] n = 3 -> \E w \in HELP_WORDS : Contains(w, Lower(text))
      [] n = 4 -> \E w \in CODE_WORDS : Contains(w, Lower(text))
      [] n = 5 -> Contains(WEATHER, Lower(text))
      [] n = 6 -> \E w \in THANK_WORDS : Contains(w, Lower(text))
      [] n = 7 -> Contains(QUESTION_MARK, text)
      [] n = 8 -> TRUE

\* the reply of rule n
RuleReply(n, text) ==
    CASE n = 1 -> GreetingReply
      [] n = 2 -> HowAreYouReply
      [] n = 3 -> HelpReply
      [] n = 4 -> CodeReply
      [] n = 5 -> WeatherReply
      [] n = 6 -> ThanksReply
      [] n = 7 -> QuestionReply
      [] n = 8 -> EchoPrefix \o text \o EchoSuffix

\* the lowest-numbered rule whose condition holds
FirstRule(text) ==
    CHOOSE n \in 1..8 : RuleHolds(n, text) /\ \A m \in 1..(n - 1) : ~ RuleHolds(m, text)

\* C10: in demo mode the reply to a chat call is the reply of the
\* lowest-numbered rule, in the order greeting, how-are-you, help, coding,
\* weather, gratitude, question mark, echo, whose condition holds on the
\* stripped message.
C10_FirstMatchingRuleWins ==
    \A t \in Threads :
        (DEMO_MODE /\ DoneChat(t) /\ resp[t].status = 200) =>
            resp[t].body.response
                = RuleReply(FirstRule(Trimmed(RawMessage(t))), Trimmed(RawMessage(t)))

\* C10 witness: a text with "weather" and a question mark got the weather
\* reply
C10_Witness ==
    \E t \in Threads :
        /\ DEMO_MODE /\ DoneChat(t) /\ resp[t].status = 200
        /\ RuleHolds(5, RawMessage(t)) /\ RuleHolds(7, RawMessage(t))
        /\ resp[t].body.response = WeatherReply

\* thread t is inside chat() and has not yet appended its assistant turn
Begun(t) ==
    pc[t] \in {"create", "append_user", "get_response", "await_response",
               "append_assistant"}

\* C11: every chat call that has begun reaches the statement after its
\* assistant append and then returns 200 with a reply text; a call waiting
\* for a remote end that never answers is ended by the timeout of the
\* session and returns the error text "Error: " followed by the (empty)
\* text of the timeout exception.
C11_EveryCallCompletes ==
    \A t \in Threads :
        /\ Begun(t) ~> (pc[t] = "trim_check")
        /\ (pc[t] \notin {"idle", "done"}) ~>
               (DoneChat(t) /\ resp[t].status = 200)

\* C11 witness: remote mode, a call has returned the error text of a
\* timeout
C11_Witness ==
    \E t \in Threads :
        /\ ~ DEMO_MODE
        /\ DoneChat(t) /\ resp[t].status = 200
        /\ resp[t].body.response = ERROR_PREFIX

\* the texts the remote branch of ChatBot.chat can return
RemoteReplies ==
    { RemoteChat(o).value : o \in Outcomes }

\* C12: DEMO_MODE never changes after the import of the module; the
\* demo_mode field of every chat response and of every status response is
\* that value; the reply of a chat call is the canned reply to its message
\* when the flag is set and a text of the remote branch when it is not; and
\* status reports the model "demo" exactly when the flag is set (the model
\* name of the bot otherwise).
C12_ProviderFixedAtStartup ==
    /\ [](\A t \in Threads :
            /\ (DoneChat(t) /\ resp[t].status = 200) =>
                  /\ resp[t].body.demo_mode = DEMO_MODE
                  /\ DEMO_MODE =>
                        resp[t].body.response
                            = DemoResponse(Trimmed(RawMessage(t)))
                  /\ ~ DEMO_MODE => resp[t].body.response \in RemoteReplies
            /\ (pc[t] = "done" /\ req[t].route = "status") =>
                  /\ resp[t].status = 200
                  /\ resp[t].body.demo_mode = DEMO_MODE
                  /\ (resp[t].body.model = "demo") <=> DEMO_MODE
                  /\ ~ DEMO_MODE => resp[t].body.model = MODEL_NAME)
    /\ [][DEMO_MODE' = DEMO_MODE]_vars

\* C12 witness: status is asked in demo mode after a chat call and a clear
\* have been served
C12_Witness ==
    \E t \in Threads :
        /\ DEMO_MODE
        /\ pc[t] = "done" /\ req[t].route = "status"
        /\ resp[t].body.model = "demo"
        /\ nextCall > 1
        /\ \E c \in DOMAIN conversations : conversations[c] = << >>

\* the (stripped text, reply) pairs that can be read off a state: a stored
\* user turn with the assistant turn of the same call right after it, and
\* a chat call that has returned with its response
Exchanges ==
    UNION { { [text |-> conversations[c][i].content,
               reply |-> conversations[c][i + 1].content] :
                 i \in { k \in 1..(Len(conversations[c]) - 1) :
                           /\ conversations[c][k].role = "user"
                           /\ conversations[c][k + 1].role = "assistant"
                           /\ conversations[c][k + 1].call
                                = conversations[c][k].call } } :
            c \in DOMAIN conversations }
    \cup
    { [text |-> Trimmed(RawMessage(t)), reply |-> resp[t].body.response] :
          t \in { u \in Threads : DoneChat(u) /\ resp[u].status = 200 } }

\* C13: in demo mode, with requests one after the other, any two chat calls
\* with the same stripped message got the same reply, whatever conversation
\* each named, whatever that conversation held and however many calls came
\* before.
C13_SameTextSameReply ==
    DEMO_MODE =>
        \A p, q \in Exchanges : p.text = q.text => p.reply = q.reply

\* C13 witness: a call on a conversation never seen has returned after a
\* call of the same behaviour, with the same stripped message, on the
\* default conversation at the cap
C13_Witness ==
    \E t \in Threads :
        /\ DEMO_MODE /\ DoneChat(t) /\ resp[t].status = 200
        /\ ReqId(t) # DEFAULT_ID
        /\ Len(conversations[ReqId(t)]) = 2
        /\ DEFAULT_ID \in DOMAIN conversations
        /\ Len(conversations[DEFAULT_ID]) = MAX_MESSAGES
        /\ \E i \in 1..MAX_MESSAGES :
             /\ conversations[DEFAULT_ID][i].role = "user"
             /\ conversations[DEFAULT_ID][i].call > 0
             /\ conversations[DEFAULT_ID][i].content = Trimmed(RawMessage(t))
             /\ RawMessage(t) # Trimmed(RawMessage(t))

\* the user turns of the chat call of t that are in its conversation
OwnUserTurns(t) ==
    { i \in 1..Len(conversations[ReqId(t)]) :
        /\ conversations[ReqId(t)][i].role = "user"
        /\ conversations[ReqId(t)][i].call = call[t] }

\* C14: in demo mode, when the stored text of the user turn holds no token
\* of rules 1-6 (letter case ignored) and no question mark, the reply is
\* the echo text with that stored text between its quotation marks,
\* character for character; the stored text is the message with only its
\* leading and trailing white space removed.
C14_EchoEmbedsTextVerbatim ==
    \A t \in Threads :
        (DEMO_MODE /\ DoneChat(t) /\ resp[t].status = 200) =>
            \A i \in OwnUserTurns(t) :
                LET text == conversations[ReqId(t)][i].content IN
                (\A n \in 1..7 : ~ RuleHolds(n, text)) =>
                    /\ resp[t].body.response = EchoPrefix \o text \o EchoSuffix
                    /\ text = Trimmed(RawMessage(t))

\* C14 witness: a padded message with capital letters and no keyword was
\* echoed
C14_Witness ==
    \E t \in Threads :
        /\ DEMO_MODE /\ DoneChat(t) /\ resp[t].status = 200
        /\ OwnUserTurns(t) # {}
        /\ \A n \in 1..7 : ~ RuleHolds(n, RawMessage(t))
        /\ Lower(RawMessage(t)) # RawMessage(t)
        /\ Trimmed(RawMessage(t)) # RawMessage(t)
        /\ Len(resp[t].body.response)
             = Len(EchoPrefix) + Len(Trimmed(RawMessage(t))) + Len(EchoSuffix)

\* the places in the append log of its conversation where the chat call of
\* t wrote a turn of the given role
Written(t, role) ==
    LET appended == Get(log, ReqId(t), << >>) IN
    { i \in 1..Len(appended) :
        appended[i].role = role /\ appended[i].call = call[t] }

\* the reply the chat call of t holds: its local while it runs, the body of
\* its response once it has returned
ReplyOf(t) ==
    IF pc[t] = "done" THEN resp[t].body.response ELSE response[t]

\* C15: position by position, for a chat call that no clear has overlapped
\* (other chat calls may have): before line 133 it has written nothing and
\* not called the provider; between lines 133 and 141 its user turn is
\* written once and the provider not yet called; after line 141 the
\* provider has been called and no assistant turn written; from line 146 to
\* its return there is exactly one user and one assistant turn of the call
\* in the append log, the user turn first, and the assistant turn carries
\* exactly the text the call holds and returns.
C15_StepsInOrderReplyWrittenOnce ==
    \A t \in Threads :
        (req[t].route = "chat" /\ "clear" \notin raced[t]) =>
            /\ pc[t] \in {"create", "append_user"} =>
                  /\ Written(t, "user") = {}
                  /\ Written(t, "assistant") = {}
                  /\ ~ invoked[t]
            /\ pc[t] = "get_response" =>
                  /\ Cardinality(Written(t, "user")) = 1
                  /\ Written(t, "assistant") = {}
                  /\ ~ invoked[t]
            /\ pc[t] = "append_assistant" =>
                  /\ Cardinality(Written(t, "user")) = 1
                  /\ Written(t, "assistant") = {}
                  /\ invoked[t]
            /\ (\/ pc[t] \in {"trim_check", "trim_slice", "trim_store"}
                \/ pc[t] = "done" /\ resp[t].status = 200) =>
                  /\ Cardinality(Written(t, "user")) = 1
                  /\ Cardinality(Written(t, "assistant")) = 1
                  /\ invoked[t]
                  /\ \A i \in Written(t, "user"), j \in Written(t, "assistant") :
                        /\ i < j
                        /\ log[ReqId(t)][j].content = ReplyOf(t)

\* C15 witness: a call returns that another chat call on the same
\* conversation overlapped, after both wrote there
C15_Witness ==
    \E t \in Threads :
        /\ DoneChat(t) /\ resp[t].status = 200
        /\ raced[t] = {"chat"}
        /\ Cardinality(Written(t, "assistant")) = 1
        /\ \E i \in 1..Len(log[ReqId(t)]) :
             log[ReqId(t)][i].call > 0 /\ log[ReqId(t)][i].call # call[t]

\* C16: in demo mode the reply a chat call returns is the canned reply to
\* its own stripped message, whatever other chat or clear requests on the
\* same conversation ran in between.
C16_ReplyAnswersOwnMessage ==
    \A t \in Threads :
        (DEMO_MODE /\ DoneChat(t) /\ resp[t].status = 200) =>
            resp[t].body.response = DemoResponse(Trimmed(RawMessage(t)))

\* C17: when a chat call that clear requests (and no other chat call)
\* overlapped has returned, its conversation is empty or holds the user
\* turn of the call with the assistant turn of the call right after it, and
\* no assistant turn there is without the user turn of its call right
\* before it.
C17_ClearLeavesNoOrphan ==
    \A t \in Threads :
        (DoneChat(t) /\ resp[t].status = 200 /\ raced[t] = {"clear"}) =>
            LET turns == conversations[ReqId(t)] IN
            \/ turns = << >>
            \/ /\ \E i \in 1..(Len(turns) - 1) :
                    /\ turns[i] = ExpectedUser(t)
                    /\ turns[i + 1] = ExpectedAssistant(t)
               /\ \A j \in 1..Len(turns) :
                    turns[j].role = "assistant" =>
                        /\ j > 1
                        /\ turns[j - 1].role = "user"
                        /\ turns[j - 1].call = turns[j].call

\* a sequence of turns of even length (the empty one included) that starts
\* with a user turn and goes on user, assistant, user, assistant
Alternates(turns) ==
    /\ Len(turns) % 2 = 0
    /\ \A i \in 1..Len(turns) :
         turns[i].role = (IF i % 2 = 1 THEN "user" ELSE "assistant")

\* C18: with requests that never overlap, whenever no request is running
\* every conversation is empty or of even length, starting with a user turn
\* and alternating user, assistant; and the step that stores the cut list
\* (line 152) removes from the front exactly one user turn and the
\* assistant turn of the same call, nothing else.
C18_AlternatesWhenSequential ==
    /\ []((\A t \in Threads : pc[t] \in {"idle", "done"}) =>
            \A c \in DOMAIN conversations : Alternates(conversations[c]))
    /\ [][\A t \in Threads :
            (pc[t] = "trim_store" /\ pc'[t] # "trim_store") =>
                LET old == conversations[conversation_id[t]]
                    new == conversations'[conversation_id[t]]
                IN /\ Len(old) >= 2
                   /\ old = << old[1], old[2] >> \o new
                   /\ old[1].role = "user" /\ old[2].role = "assistant"
                   /\ old[1].call = old[2].call]_vars

\* C18 witness: a call has returned after its conversation was cut to 20
\* turns, and the oldest turn kept is a user turn of an earlier call
C18_Witness ==
    \E t \in Threads :
        /\ DoneChat(t) /\ resp[t].status = 200
        /\ Len(log[ReqId(t)]) = MAX_MESSAGES + 2
        /\ Len(conversations[ReqId(t)]) = MAX_MESSAGES
        /\ conversations[ReqId(t)][1].role = "user"
        /\ conversations[ReqId(t)][1].call < call[t]

\* the places of the system turns in a list of turns
SystemTurns(turns) ==
    { i \in 1..Len(turns) : turns[i].role = "system" }

\* C19: every stored turn is a user or an assistant turn, in every state;
\* the body of a request that is on the wire has exactly one system turn,
\* its first, carrying the system prompt, followed by the stored turns of
\* the conversation as they are; and the step that sends the request
\* leaves the store as it was.
C19_SystemTurnOnlyInRequest ==
    /\ [](\A c \in DOMAIN conversations :
            \A i \in 1..Len(conversations[c]) :
                conversations[c][i].role \in {"user", "assistant"})
    /\ [](\A t \in Threads :
            pc[t] = "await_response" =>
                /\ SystemTurns(json[t].messages) = {1}
                /\ json[t].messages[1].content = SYSTEM_PROMPT
                /\ Tail(json[t].messages) = conversations[conversation_id[t]])
    /\ [][\A t \in Threads :
            (pc[t] = "get_response" /\ pc'[t] = "await_response") =>
                conversations' = conversations]_vars

\* C19 witness: the request of a later call is on the wire, and it carries
\* the turns an earlier call of the same behaviour stored
C19_Witness ==
    \E t \in Threads :
        /\ pc[t] = "await_response"
        /\ call[t] > 1
        /\ Len(json[t].messages) > 3
        /\ \E i \in 2..Len(json[t].messages) :
             /\ json[t].messages[i].role = "assistant"
             /\ json[t].messages[i].call > 0

=============================================================================
